---- MODULE Spec2Model ----
(***************************************************************************)
(* static/images/generate_hero.py: a script that composites a hero banner. *)
(* It fills a 1000x420 canvas, opens a chart image, resizes it to width    *)
(* 500, pastes it on the right, runs a per-pixel blend over the columns    *)
(* left of it, loads fonts (with a fallback), draws five strings and a     *)
(* rectangle, saves a PNG and prints two lines.                            *)
(*                                                                         *)
(* The canvas is held at the pixels of a grid (Cols \X Rows): every        *)
(* ColStride-th column and RowStride-th row plus the columns and rows at   *)
(* the edges of everything the script draws.  The column weights of the    *)
(* blend loop are computed for every column of range(sensor_x).            *)
(***************************************************************************)
EXTENDS Integers, Sequences, FiniteSets

VARIABLES
    pc,             \* the statement the script executes next
    asset,          \* the file at sensor_img_path (environment), or Missing
    img,            \* the canvas: pixel -> <<r, g, b>>
    sensor_img,     \* the opened, later resized, chart image, or NoImage
    sensor_height,  \* line 19
    sensor_x,       \* line 23
    sensor_y,       \* line 24
    title_font,     \* lines 40/44
    subtitle_font,  \* lines 41/45
    small_font,     \* lines 42/46
    file,           \* the raster stored at output_path, or NoFile
    fileFrom,       \* the inputs of the run that wrote file, or NoRun
    stdout          \* the lines printed so far

vars == <<pc, asset, img, sensor_img, sensor_height, sensor_x, sensor_y,
          title_font, subtitle_font, small_font, file, fileFrom, stdout>>

----------------------------------------------------------------------------
(* Constants of the script *)

width == 1000
height == 420
bg_color == <<15, 23, 42>>
sensor_width == 500
text_color == <<226, 232, 240>>
accent_color == <<147, 197, 253>>
warning_color == <<248, 113, 113>>
badge_color == <<100, 116, 139>>
title_y == 80
subtitle_y == title_y + 130
badge_y == height - 60
line_y == subtitle_y - 20
output_path == "d:\\source\\repos\\robjohnston\\static\\images\\solid\\liskov_hero.png"

(* Sampling of the canvas *)
ColStride == 16
RowStride == 30

(* Values for what does not exist (yet) *)
Missing == [mode |-> "missing", w |-> 0, h |-> 0, pat |-> "missing"]
NoImage == [mode |-> "none", w |-> 0, h |-> 0, pat |-> "none"]
NoFile == << >>
NoRun == [asset |-> Missing, fell_back |-> FALSE]
Unset == [name |-> "unset", size |-> 0]

Min(a, b) == IF a < b THEN a ELSE b
Max(a, b) == IF a > b THEN a ELSE b
range(n) == 0 .. (n - 1)

----------------------------------------------------------------------------
(* The chart image at sensor_img_path.  An image is a record of its mode,  *)
(* its size and its content; the content is named by pat and read through  *)
(* getband at the coordinates of the resized image.                        *)

Assets ==
    { [mode |-> "RGB",  w |-> 1000, h |-> 600, pat |-> "white"],
      [mode |-> "RGB",  w |-> 600,  h |-> 403, pat |-> "chart"],
      [mode |-> "RGBA", w |-> 800,  h |-> 600, pat |-> "chart"],
      [mode |-> "RGBA", w |-> 19,   h |-> 19,  pat |-> "chart"],
      [mode |-> "LA",   w |-> 400,  h |-> 300, pat |-> "chart"],
      [mode |-> "L",    w |-> 640,  h |-> 480, pat |-> "chart"],
      [mode |-> "RGB",  w |-> 500,  h |-> 500, pat |-> "chart"],
      [mode |-> "RGB",  w |-> 1000, h |-> 1,   pat |-> "white"] }

(* Bands of a mode, as the imaging library stores them *)
Bands(mode) ==
    CASE mode = "RGB"  -> <<"R", "G", "B">>
      [] mode = "RGBA" -> <<"R", "G", "B", "A">>
      [] mode = "LA"   -> <<"L", "A">>
      [] mode = "L"    -> <<"L">>

(* The value of one band of the resized image at (i, j).  The "chart"     *)
(* content has a fully transparent strip (i < 100), a half transparent    *)
(* strip (100 <= i < 200) and is opaque elsewhere.                        *)
getband(im, band, i, j) ==
    IF im.pat = "white" THEN 255
    ELSE CASE band = "R" -> (7 * i + 3 * j) % 256
           [] band = "G" -> (5 * j + i) % 256
           [] band = "B" -> 90
           [] band = "L" -> (7 * i + 3 * j) % 256
           [] band = "A" -> IF i < 100 THEN 0 ELSE IF i < 200 THEN 128 ELSE 255

(* sensor_img.getpixel((i, j)): one value per band *)
pixel(im, i, j) ==
    [k \in 1 .. Len(Bands(im.mode)) |-> getband(im, Bands(im.mode)[k], i, j)]

(* Image.convert("RGB") of one pixel: what paste applies to a source whose *)
(* mode differs from the canvas's.  Alpha bands are dropped.               *)
convertRGB(mode, px) ==
    CASE mode = "RGB"  -> px
      [] mode = "RGBA" -> <<px[1], px[2], px[3]>>
      [] mode = "LA"   -> <<px[1], px[1], px[1]>>
      [] mode = "L"    -> <<px[1], px[1], px[1]>>

(* The alpha band of a mask pixel (paste reads band A of an RGBA mask) *)
maskAlpha(mode, px) == px[Len(Bands(mode))]

----------------------------------------------------------------------------
(* Line 19: int(sensor_img.height * (sensor_width / sensor_img.width))     *)
(* The quotient sensor_width / w is rounded to binary64 before it is       *)
(* multiplied by h.  For the sizes of RoundedBelow the product lands just  *)
(* below the exact integer sensor_width * h / w and int() drops it to one  *)
(* less (19 * (500 / 19) = 499.99999999999994); for every other size of    *)
(* Assets the truncated product is the floor of the exact quotient.        *)
RoundedBelow == { <<19, 19>>, <<19, 38>>, <<38, 19>>, <<38, 38>> }

resized_height(w, h) ==
    LET exact == (h * sensor_width) \div w
    IN  IF <<w, h>> \in RoundedBelow THEN exact - 1 ELSE exact

(* Mutant of paste_x: the 20-pixel margin forgotten *)
paste_x_nomargin == width - sensor_width

(* Line 23 and line 24 *)
paste_x == width - sensor_width - 20
paste_y(sh) == (height - sh) \div 2

(* Line 25: the mask argument of paste *)
paste_mask(im) == IF im.mode = "RGBA" THEN im ELSE NoImage

----------------------------------------------------------------------------
(* The sampled canvas *)

EdgeCols ==
    { 0, 39, 40, 280, 281, paste_x - 1, paste_x, paste_x + 99, paste_x + 100,
      paste_x + 199, paste_x + 200, paste_x + sensor_width - 1,
      paste_x + sensor_width, width - 1 }

EdgeRows ==
    UNION { LET sh == resized_height(a.w, a.h)
            IN  { paste_y(sh) - 1, paste_y(sh), paste_y(sh) + sh - 1, paste_y(sh) + sh }
            : a \in Assets }
    \cup { 0, title_y, line_y - 1, line_y, line_y + 3, line_y + 4, height - 1 }

Cols == { x \in range(width) : x % ColStride = 0 \/ x \in EdgeCols }
Rows == { y \in range(height) : y % RowStride = 0 \/ y \in EdgeRows }
Pixels == Cols \X Rows

(* Line 10: Image.new('RGB', (width, height), bg_color) *)
new_image == [p \in Pixels |-> bg_color]

(* The imaging library's blend of one 8-bit channel under an 8-bit mask:  *)
(* (in1 * (255 - mask) + in2 * mask) / 255, rounded, in shifts.           *)
BLEND8(mask, in1, in2) ==
    LET tmp == in1 * (255 - mask) + in2 * mask + 128
    IN  ((tmp \div 256) + tmp) \div 256

(* img.paste(im, (x0, y0), mask): the box is the size of im, clipped to    *)
(* the canvas; im is converted to the canvas's mode; with a mask each      *)
(* channel is blended under the mask's alpha, without one it is copied.    *)
paste(canvas, im, x0, y0, mask) ==
    [p \in Pixels |->
        LET i == p[1] - x0
            j == p[2] - y0
        IN  IF i \in range(im.w) /\ j \in range(im.h)
            THEN LET src == convertRGB(im.mode, pixel(im, i, j))
                 IN  IF mask = NoImage
                     THEN src
                     ELSE LET a == maskAlpha(mask.mode, pixel(mask, i, j))
                          IN  [k \in 1 .. 3 |-> BLEND8(a, canvas[p][k], src[k])]
            ELSE canvas[p]]

----------------------------------------------------------------------------
(* Lines 28-36: the gradient loop *)

(* Mutant of alpha: round() in place of int() *)
alpha_round(x, sx) == (255 * (10 * sx - 3 * x) + 5 * sx) \div (10 * sx)

(* Mutant of alpha: x // sensor_x in place of x / sensor_x *)
alpha_intdiv(x, sx) == (255 * (10 - 3 * (x \div sx))) \div 10

(* Line 29: int(255 * (1 - (x / sensor_x) * 0.3)), 0.3 = 3/10.  The value  *)
(* is positive, so int() is the floor; the binary64 result agrees with    *)
(* the exact one for every x of range(480).                               *)
alpha(x, sx) == (255 * (10 * sx - 3 * x)) \div (10 * sx)

(* Mutant of blend_channel: the operands of the difference swapped *)
blend_channel_swapped(current, bg, a) ==
    Min(255, current + ((current - bg) * a) \div 255)

(* Lines 33-35: one channel *)
blend_channel(current, bg, a) == Min(255, current + ((bg - current) * a) \div 255)

(* Mutant of blend_pixel: a blend towards black *)
blend_pixel_black(current, a) ==
    [k \in 1 .. 3 |-> blend_channel(current[k], 0, a)]

(* Lines 31-36: getpixel, putpixel *)
blend_pixel(current, a) ==
    [k \in 1 .. 3 |-> blend_channel(current[k], bg_color[k], a)]

(* Lines 28-36 *)
gradient(canvas, sx) ==
    [p \in Pixels |->
        IF p[1] \in range(sx) THEN blend_pixel(canvas[p], alpha(p[1], sx))
        ELSE canvas[p]]

----------------------------------------------------------------------------
(* Lines 38-46: fonts.  Lines 53-72: text and the accent rectangle.        *)

truetype(name, size) == [name |-> name, size |-> size]
load_default == [name |-> "default", size |-> 11]

(* The cell of one character: the rasteriser's glyphs are taken as filled  *)
(* cells, half the point size wide for a scalable font, 6 wide for the     *)
(* built-in bitmap font.                                                   *)
advance(font) == IF font.name = "default" THEN 6 ELSE font.size \div 2

(* draw.text(pos, text, fill=fill, font=font); n is len(text) *)
draw_text(canvas, pos, n, fill, font) ==
    [p \in Pixels |->
        IF /\ p[1] \in pos[1] .. (pos[1] + n * advance(font) - 1)
           /\ p[2] \in pos[2] .. (pos[2] + font.size - 1)
        THEN fill ELSE canvas[p]]

(* draw.rectangle([(x0, y0), (x1, y1)], fill=fill): both corners inside *)
draw_rectangle(canvas, x0, y0, x1, y1, fill) ==
    [p \in Pixels |->
        IF p[1] \in x0 .. x1 /\ p[2] \in y0 .. y1 THEN fill ELSE canvas[p]]

(* The five strings with their lengths *)
title_text == [s |-> "Liskov Substitution", n |-> 19]
title_text2 == [s |-> "Principle", n |-> 9]
subtitle_text == [s |-> "When Your Cheap Sensor", n |-> 22]
subtitle_text2 == [s |-> "Breaks Everything", n |-> 17]
badge_text == [s |-> "SOLID PRINCIPLES", n |-> 16]

----------------------------------------------------------------------------
(* The script, statement by statement *)

(* An invocation of the script: lines 5-11 have run *)
Start ==
    /\ pc = "open"
    /\ img = new_image
    /\ sensor_img = NoImage
    /\ sensor_height = 0
    /\ sensor_x = 0
    /\ sensor_y = 0
    /\ title_font = Unset
    /\ subtitle_font = Unset
    /\ small_font = Unset
    /\ stdout = <<>>

Init ==
    /\ Start
    /\ asset \in Assets \cup {Missing}
    /\ file = NoFile
    /\ fileFrom = NoRun

(* Line 15: Image.open raises when the file is missing *)
Open ==
    /\ pc = "open"
    /\ IF asset = Missing
       THEN pc' = "error" /\ UNCHANGED sensor_img
       ELSE pc' = "resize" /\ sensor_img' = asset
    /\ UNCHANGED <<asset, img, sensor_height, sensor_x, sensor_y, title_font,
                   subtitle_font, small_font, file, fileFrom, stdout>>

(* Lines 18-20: resize raises ValueError for a height below 1 *)
Resize ==
    /\ pc = "resize"
    /\ sensor_height' = resized_height(sensor_img.w, sensor_img.h)
    /\ IF sensor_height' < 1
       THEN pc' = "error" /\ UNCHANGED sensor_img
       ELSE /\ pc' = "paste"
            /\ sensor_img' = [sensor_img EXCEPT !.w = sensor_width, !.h = sensor_height']
    /\ UNCHANGED <<asset, img, sensor_x, sensor_y, title_font, subtitle_font,
                   small_font, file, fileFrom, stdout>>

(* Lines 23-25 *)
Paste ==
    /\ pc = "paste"
    /\ sensor_x' = paste_x
    /\ sensor_y' = paste_y(sensor_height)
    /\ img' = paste(img, sensor_img, sensor_x', sensor_y', paste_mask(sensor_img))
    /\ pc' = "gradient"
    /\ UNCHANGED <<asset, sensor_img, sensor_height, title_font, subtitle_font,
                   small_font, file, fileFrom, stdout>>

(* Lines 28-36 *)
Gradient ==
    /\ pc = "gradient"
    /\ img' = gradient(img, sensor_x)
    /\ pc' = "font1"
    /\ UNCHANGED <<asset, sensor_img, sensor_height, sensor_x, sensor_y, title_font,
                   subtitle_font, small_font, file, fileFrom, stdout>>

(* Line 40, inside try: the load succeeds or raises *)
LoadTitleFont ==
    /\ pc = "font1"
    /\ \E ok \in BOOLEAN :
          IF ok THEN title_font' = truetype("arial.ttf", 48) /\ pc' = "font2"
          ELSE UNCHANGED title_font /\ pc' = "except"
    /\ UNCHANGED <<asset, img, sensor_img, sensor_height, sensor_x, sensor_y,
                   subtitle_font, small_font, file, fileFrom, stdout>>

(* Line 41 *)
LoadSubtitleFont ==
    /\ pc = "font2"
    /\ \E ok \in BOOLEAN :
          IF ok THEN subtitle_font' = truetype("arial.ttf", 28) /\ pc' = "font3"
          ELSE UNCHANGED subtitle_font /\ pc' = "except"
    /\ UNCHANGED <<asset, img, sensor_img, sensor_height, sensor_x, sensor_y,
                   title_font, small_font, file, fileFrom, stdout>>

(* Line 42 *)
LoadSmallFont ==
    /\ pc = "font3"
    /\ \E ok \in BOOLEAN :
          IF ok THEN small_font' = truetype("arial.ttf", 20) /\ pc' = "title"
          ELSE UNCHANGED small_font /\ pc' = "except"
    /\ UNCHANGED <<asset, img, sensor_img, sensor_height, sensor_x, sensor_y,
                   title_font, subtitle_font, file, fileFrom, stdout>>

(* Mutant of fallback_fonts: the handler leaves title_font as it is *)
fallback_partial == <<title_font, load_default, load_default>>

(* Mutant of FontFallback: the handler raises again *)
FontFallback_reraise ==
    /\ pc = "except"
    /\ pc' = "error"
    /\ UNCHANGED <<asset, img, sensor_img, sensor_height, sensor_x, sensor_y,
                   title_font, subtitle_font, small_font, file, fileFrom, stdout>>

(* Lines 43-46: the handler's three assignments *)
fallback_fonts == <<load_default, load_default, load_default>>

FontFallback ==
    /\ pc = "except"
    /\ title_font' = fallback_fonts[1]
    /\ subtitle_font' = fallback_fonts[2]
    /\ small_font' = fallback_fonts[3]
    /\ pc' = "title"
    /\ UNCHANGED <<asset, img, sensor_img, sensor_height, sensor_x, sensor_y,
                   file, fileFrom, stdout>>

(* One draw statement: from its label to the next *)
DrawStep(from, to, canvas) ==
    /\ pc = from
    /\ img' = canvas
    /\ pc' = to
    /\ UNCHANGED <<asset, sensor_img, sensor_height, sensor_x, sensor_y, title_font,
                   subtitle_font, small_font, file, fileFrom, stdout>>

(* Line 56 *)
DrawTitle ==
    DrawStep("title", "title2",
             draw_text(img, <<40, title_y>>, title_text.n, text_color, title_font))

(* Line 59 *)
DrawTitle2 ==
    DrawStep("title2", "subtitle",
             draw_text(img, <<40, title_y + 55>>, title_text2.n, text_color, title_font))

(* Line 63 *)
DrawSubtitle ==
    DrawStep("subtitle", "subtitle2",
             draw_text(img, <<40, subtitle_y>>, subtitle_text.n, accent_color,
                       subtitle_font))

(* Line 64 *)
DrawSubtitle2 ==
    DrawStep("subtitle2", "badge",
             draw_text(img, <<40, subtitle_y + 35>>, subtitle_text2.n, warning_color,
                       subtitle_font))

(* Line 68 *)
DrawBadge ==
    DrawStep("badge", "line",
             draw_text(img, <<40, badge_y>>, badge_text.n, badge_color, small_font))

(* Line 72 *)
DrawLine ==
    DrawStep("line", "save",
             draw_rectangle(img, 40, line_y, 280, line_y + 3, accent_color))

(* The inputs of a run that decide its raster: the asset and the fonts *)
fell_back == small_font = load_default

(* Line 76: img.save raises when the directory is missing or read-only *)
Save ==
    /\ pc = "save"
    /\ \E ok \in BOOLEAN :
          IF ok
          THEN /\ file' = img
               /\ fileFrom' = [asset |-> asset, fell_back |-> fell_back]
               /\ pc' = "print1"
          ELSE /\ UNCHANGED <<file, fileFrom>>
               /\ pc' = "error"
    /\ UNCHANGED <<asset, img, sensor_img, sensor_height, sensor_x, sensor_y,
                   title_font, subtitle_font, small_font, stdout>>

(* Line 77 *)
PrintPath ==
    /\ pc = "print1"
    /\ stdout' = Append(stdout, <<"Hero image created: ", output_path>>)
    /\ pc' = "print2"
    /\ UNCHANGED <<asset, img, sensor_img, sensor_height, sensor_x, sensor_y,
                   title_font, subtitle_font, small_font, file, fileFrom>>

(* Line 78 *)
PrintDimensions ==
    /\ pc = "print2"
    /\ stdout' = Append(stdout, <<"Dimensions: ", width, "x", height>>)
    /\ pc' = "done"
    /\ UNCHANGED <<asset, img, sensor_img, sensor_height, sensor_x, sensor_y,
                   title_font, subtitle_font, small_font, file, fileFrom>>

Next ==
    \/ Open
    \/ Resize
    \/ Paste
    \/ Gradient
    \/ LoadTitleFont
    \/ LoadSubtitleFont
    \/ LoadSmallFont
    \/ FontFallback
    \/ DrawTitle
    \/ DrawTitle2
    \/ DrawSubtitle
    \/ DrawSubtitle2
    \/ DrawBadge
    \/ DrawLine
    \/ Save
    \/ PrintPath
    \/ PrintDimensions

Spec == Init /\ [][Next]_vars

(* The script run again after a run has ended: the canvas and the script's *)
(* variables start afresh, the output file stays on disk, the asset file   *)
(* and the fonts may have changed.                                         *)
Rerun ==
    /\ pc \in {"done", "error"}
    /\ pc' = "open"
    /\ img' = new_image
    /\ sensor_img' = NoImage
    /\ sensor_height' = 0
    /\ sensor_x' = 0
    /\ sensor_y' = 0
    /\ title_font' = Unset
    /\ subtitle_font' = Unset
    /\ small_font' = Unset
    /\ stdout' = <<>>
    /\ asset' \in Assets \cup {Missing}
    /\ UNCHANGED <<file, fileFrom>>

NextRuns == Next \/ Rerun

SpecRuns == Init /\ [][NextRuns]_vars

----------------------------------------------------------------------------
(* Properties *)

White == <<255, 255, 255>>
Scenario == [mode |-> "RGB", w |-> 1000, h |-> 600, pat |-> "white"]

(* Labels of the statements after the gradient loop *)
AfterGradient ==
    { "font1", "font2", "font3", "except", "title", "title2", "subtitle",
      "subtitle2", "badge", "line", "save", "print1", "print2", "done" }

HasAlpha(mode) == "A" \in { Bands(mode)[k] : k \in 1 .. Len(Bands(mode)) }

(* The pixels of the canvas the pasted image covers *)
InBox(p) ==
    /\ p[1] - sensor_x \in range(sensor_img.w)
    /\ p[2] - sensor_y \in range(sensor_img.h)

(* C1, as claimed: the blend weight alpha/255 of column x is the ramp      *)
(* 0.3 * (1 - x / sensor_x), 0.3 at x = 0 and zero at the asset's edge     *)
(* (to within one unit of alpha).                                          *)
C1_Original ==
    pc \in AfterGradient =>
        \A x \in range(sensor_x) :
            LET d == 10 * sensor_x * alpha(x, sensor_x) - 255 * 3 * (sensor_x - x)
            IN  d > -(10 * sensor_x) /\ d < 10 * sensor_x

(* C1, amended: the blend weight alpha/255 of column x is the ramp         *)
(* 1 - 0.3 * x / sensor_x rounded down to a multiple of 1/255: it is 1 at  *)
(* x = 0, where every channel value is replaced by the background's, and   *)
(* decreases linearly to just above 0.7 at the asset's edge.               *)
C1_Amended ==
    pc \in AfterGradient =>
        /\ \A x \in range(sensor_x) :
              LET d == 255 * (10 * sensor_x - 3 * x) - 10 * sensor_x * alpha(x, sensor_x)
              IN  d >= 0 /\ d < 10 * sensor_x
        /\ alpha(0, sensor_x) = 255
        /\ \A c \in 0 .. 255 : blend_pixel(<<c, c, c>>, alpha(0, sensor_x)) = bg_color
        /\ 10 * alpha(sensor_x - 1, sensor_x) >= 7 * 255 - 10
        /\ 10 * alpha(sensor_x - 1, sensor_x) <= 7 * 255 + 10

(* C1 witness: the gradient loop has run over the 480 columns *)
C1_Witness == pc = "font1" /\ sensor_x = 480 /\ alpha(240, sensor_x) = 216

(* C2, as claimed: in the scenario, after the paste and the gradient loop  *)
(* the column x = 0 is darker (lower in every channel) than the column     *)
(* just left of the asset.                                                 *)
C2_Claim ==
    (pc = "font1" /\ asset = Scenario) =>
        \A y \in Rows : \A k \in 1 .. 3 :
            img[<<0, y>>][k] < img[<<sensor_x - 1, y>>][k]

(* C3, as claimed: after the paste, if the asset has an alpha band, every  *)
(* pixel under a fully transparent source pixel has the colour the canvas  *)
(* had before the paste; if it has none, every pixel of the box equals     *)
(* the resized asset's pixel.                                              *)
C3_Claim ==
    pc = "gradient" =>
        \A p \in Pixels :
            InBox(p) =>
                LET src == pixel(sensor_img, p[1] - sensor_x, p[2] - sensor_y)
                IN  IF HasAlpha(sensor_img.mode)
                    THEN maskAlpha(sensor_img.mode, src) = 0 => img[p] = new_image[p]
                    ELSE img[p] = convertRGB(sensor_img.mode, src)

(* C4, as claimed: the resized height is the integer nearest to           *)
(* h * 500 / w.                                                            *)
C4_Claim ==
    pc = "paste" =>
        /\ 2 * asset.w * sensor_img.h <= 2 * asset.h * sensor_width + asset.w
        /\ 2 * asset.w * sensor_img.h >= 2 * asset.h * sensor_width - asset.w

(* C5, as claimed: a run given the same asset as the run that wrote the    *)
(* output file writes the same raster, whether or not the named font       *)
(* could be loaded in either run.                                          *)
C5_Original ==
    [][(pc = "save" /\ pc' = "print1" /\ fileFrom # NoRun /\ fileFrom.asset = asset)
           => file' = file]_vars

(* C5, amended: a run given the same asset as the run that wrote the       *)
(* output file, and in which the named font loaded or failed to load as    *)
(* it did in that run, writes the same raster.                             *)
C5_Amended ==
    [][(/\ pc = "save" /\ pc' = "print1"
        /\ fileFrom # NoRun
        /\ fileFrom.asset = asset
        /\ fileFrom.fell_back = fell_back)
           => file' = file]_vars

(* C5 witness: a second run of the same asset and the same font outcome is *)
(* about to write, over the first run's file, the raster it composed.      *)
C5_Witness ==
    /\ pc = "save"
    /\ fileFrom # NoRun
    /\ fileFrom.asset = asset
    /\ fileFrom.fell_back = fell_back
    /\ fell_back
    /\ file = img

(* What holds of every state of a run, whatever stopped it *)
C6_Outcome ==
    /\ pc = "done" => /\ file = img
                      /\ stdout = << <<"Hero image created: ", output_path>>,
                                     <<"Dimensions: ", width, "x", height>> >>
    /\ pc = "error" => file = NoFile /\ stdout = << >>
    /\ (pc = "error" /\ small_font = Unset) => img = new_image
    /\ Len(stdout) > 0 => file = img
    /\ pc \in {"title", "title2", "subtitle", "subtitle2", "badge", "line", "save"}
          => (fell_back =>
                 title_font = load_default /\ subtitle_font = load_default)

(* A failed font load is handled and the run goes on *)
C6_FontFailure ==
    /\ pc \in {"font1", "font2", "font3"} => pc' \in {"font2", "font3", "title", "except"}
    /\ pc = "except" => /\ pc' = "title"
                        /\ title_font' = load_default
                        /\ subtitle_font' = load_default
                        /\ small_font' = load_default

(* C6, as claimed: only the asset load (line 15) and the write (line 76)   *)
(* stop a run in error; a failed load stops it before any pixel is         *)
(* pasted, any file written, any line printed; a failed write stops it     *)
(* with no line printed; otherwise both lines are printed, after the       *)
(* write; a failed font load never stops it.                               *)
C6_Original ==
    /\ []C6_Outcome
    /\ [][C6_FontFailure]_vars
    /\ [][pc' = "error" => ((pc = "open" /\ asset = Missing) \/ pc = "save")]_vars

(* C6, amended: only the asset load, the resize (line 20, which raises     *)
(* when the computed height is below 1) and the write stop a run in        *)
(* error; a failed load or resize stops it before any pixel is pasted,     *)
(* any file written, any line printed; a failed write stops it with no     *)
(* line printed; otherwise both lines are printed, after the write; a      *)
(* failed font load never stops it.                                        *)
C6_Amended ==
    /\ []C6_Outcome
    /\ [][C6_FontFailure]_vars
    /\ [][pc' = "error" =>
             \/ pc = "open" /\ asset = Missing
             \/ pc = "resize" /\ sensor_height' < 1 /\ img = new_image
             \/ pc = "save"]_vars

(* C6 witness: a run whose font load failed has printed both lines *)
C6_Witness ==
    /\ pc = "done"
    /\ title_font = load_default
    /\ Len(stdout) = 2
    /\ file = img

(* C7: the integer weight alpha is non-increasing over range(sensor_x),    *)
(* and it is strictly greater at x = 0 than at x = sensor_x - 1 = 479.     *)
C7_Monotone ==
    pc \in AfterGradient =>
        /\ sensor_x - 1 = 479
        /\ \A x \in range(sensor_x - 1) :
              alpha(x + 1, sensor_x) <= alpha(x, sensor_x)
        /\ alpha(0, sensor_x) > alpha(sensor_x - 1, sensor_x)

(* C7 witness: the loop has run; the weights at both ends *)
C7_Witness ==
    /\ pc = "font1"
    /\ alpha(0, sensor_x) = 255
    /\ alpha(sensor_x - 1, sensor_x) = 178

(* C8: the resized asset is pasted at columns 480..979 and rows            *)
(* sensor_y .. sensor_y + h - 1 with sensor_y = (420 - h) // 2: nothing    *)
(* outside that box changes (columns 980..999 among it), an asset pasted   *)
(* without mask fills the box, for h <= 420 the margins above and below    *)
(* differ by at most one; in the scenario h = 300 and exactly columns      *)
(* 480..979 of rows 60..359 are white, all else the background colour.     *)
C8_Placement ==
    pc = "gradient" =>
        LET h == sensor_img.h
            top == sensor_y
            bottom == height - (sensor_y + h)
        IN  /\ sensor_x = 480
            /\ sensor_img.w = 500
            /\ sensor_y = (420 - h) \div 2
            /\ h <= 420 => (top - bottom \in {-1, 0, 1} /\ top >= 0)
            /\ \A p \in Pixels :
                  \/ p[1] \in 480 .. 979 /\ p[2] \in sensor_y .. (sensor_y + h - 1)
                  \/ img[p] = bg_color
            /\ \A p \in Pixels : p[1] \in 980 .. 999 => img[p] = bg_color
            /\ sensor_img.mode = "RGB" =>
                  \A p \in Pixels :
                      (p[1] \in 480 .. 979 /\ p[2] \in sensor_y .. (sensor_y + h - 1))
                          => img[p] = pixel(sensor_img, p[1] - 480, p[2] - sensor_y)
            /\ asset = Scenario =>
                  /\ h = 300
                  /\ \A p \in Pixels :
                        img[p] = IF p[1] \in 480 .. 979 /\ p[2] \in 60 .. 359
                                 THEN White ELSE bg_color

(* C8 witness: the scenario's asset has been pasted *)
C8_Witness ==
    /\ pc = "gradient"
    /\ asset = Scenario
    /\ img[<<480, 60>>] = White
    /\ img[<<979, 359>>] = White
    /\ img[<<479, 60>>] = bg_color

(* C9: for every column x of range(sensor_x) and every channel value c of  *)
(* 0..255 the value the loop writes is in 0..255 and lies between c and    *)
(* the background's channel value, both included.                          *)
C9_Between ==
    pc = "font1" =>
        \A x \in range(sensor_x) : \A k \in 1 .. 3 : \A c \in 0 .. 255 :
            LET v == blend_channel(c, bg_color[k], alpha(x, sensor_x))
            IN  /\ v \in 0 .. 255
                /\ v >= Min(c, bg_color[k])
                /\ v <= Max(c, bg_color[k])

(* C9 witness: the loop has run, over columns whose weight moves a value   *)
(* only part of the way (255 to 87 at x = 479, towards 15)                 *)
C9_Witness ==
    /\ pc = "font1"
    /\ sensor_x = 480
    /\ blend_channel(255, bg_color[1], alpha(479, sensor_x)) = 87

====
